---- MODULE Spec2Model ----
(***************************************************************************)
(* Request pipeline and users service of starterkit-react-csr-go-api.      *)
(*                                                                         *)
(*   api/internal/server/middleware.go   middleware chain, responseWriter  *)
(*   api/internal/server/routes.go       route table                       *)
(*   api/internal/users/handler.go       handlers and users service        *)
(*                                                                         *)
(* Two specifications:                                                     *)
(*   Spec         every connection goroutine takes requests through the    *)
(*                middleware chain, the mux, a handler and the service.    *)
(*   SpecService  Service.ListUsers called directly with arbitrary ints.   *)
(***************************************************************************)
EXTENDS Integers, Sequences, FiniteSets, TLC

(***************************************************************************)
(* Go's int is 64 bits wide on the platforms the server is built for and   *)
(* int32 is 32 bits wide.  A Go int n is kept as two limbs,                *)
(* n = hi * Limb + lo with 0 <= lo < Limb, so that values beyond 2^31 can  *)
(* be parsed, compared and narrowed exactly.                               *)
(***************************************************************************)
Limb == 256 * 256

FromInt(n) == [hi |-> n \div Limb, lo |-> n % Limb]

\* x * 10 + d, the accumulation step of strconv.Atoi
MulAdd10(x, d) ==
    LET t == x.lo * 10 + d
    IN  [hi |-> x.hi * 10 + (t \div Limb), lo |-> t % Limb]

Neg(x) ==
    IF x.lo = 0 THEN [hi |-> 0 - x.hi, lo |-> 0]
                ELSE [hi |-> 0 - x.hi - 1, lo |-> Limb - x.lo]

\* x < 0
IsNegative(x) == x.hi < 0

\* x <= 0
LeqZero(x) == x.hi < 0 \/ (x.hi = 0 /\ x.lo = 0)

\* x > n, for 0 <= n < Limb
GreaterThan(x, n) == x.hi > 0 \/ (x.hi = 0 /\ x.lo > n)

\* the Go conversion int32(x): the low 32 bits of x, read as two's complement
int32(x) ==
    LET h == x.hi % Limb
    IN  IF h >= Limb \div 2 THEN (h - Limb) * Limb + x.lo
                            ELSE h * Limb + x.lo

(***************************************************************************)
(* strconv.Atoi on a string given as a sequence of characters: an optional *)
(* sign followed by at least one decimal digit.  The strings the model     *)
(* feeds it have fewer than 19 digits, so the 64-bit range error of Atoi   *)
(* cannot occur.                                                           *)
(***************************************************************************)
Digits == <<"0", "1", "2", "3", "4", "5", "6", "7", "8", "9">>

IsDigit(ch) == \E i \in 1..Len(Digits) : Digits[i] = ch

DigitVal(ch) == (CHOOSE i \in 1..Len(Digits) : Digits[i] = ch) - 1

RECURSIVE ParseDigits(_, _)
ParseDigits(s, acc) ==
    IF s = <<>> THEN acc
    ELSE ParseDigits(Tail(s), MulAdd10(acc, DigitVal(Head(s))))

Atoi(s) ==
    LET signed == s # <<>> /\ Head(s) \in {"+", "-"}
        body   == IF signed THEN Tail(s) ELSE s
    IN  IF body = <<>> \/ \E i \in 1..Len(body) : ~IsDigit(body[i])
        THEN [err |-> TRUE, val |-> FromInt(0)]
        ELSE LET v == ParseDigits(body, FromInt(0))
             IN  [err |-> FALSE,
                  val |-> IF signed /\ Head(s) = "-" THEN Neg(v) ELSE v]

(***************************************************************************)
(* Service.ListUsers, handler.go 179-197: the clamping of limit and offset *)
(* and the parameters handed to the store query.                           *)
(***************************************************************************)
DefaultLimit == 20
MaxLimit == 100

\* variant: the maximum is not enforced
ClampLimit_noMax(limit) ==
    IF LeqZero(limit) THEN FromInt(DefaultLimit) ELSE limit

ClampLimit(limit) ==
    LET l1 == IF LeqZero(limit) THEN FromInt(DefaultLimit) ELSE limit
    IN  IF GreaterThan(l1, MaxLimit) THEN FromInt(MaxLimit) ELSE l1

ClampOffset(offset) ==
    IF IsNegative(offset) THEN FromInt(0) ELSE offset

ListUsersParams(limit, offset) ==
    [Limit  |-> int32(ClampLimit(limit)),
     Offset |-> int32(ClampOffset(offset))]

(***************************************************************************)
(* Bounds of the model.                                                    *)
(***************************************************************************)
\* connection goroutines serving requests concurrently
NumConns == 1
\* requests accepted over the life of the server
MaxRequests == 2
\* largest small limit handed directly to Service.ListUsers in SpecService
MaxProbe == 103

Conns == 1..NumConns

(***************************************************************************)
(* net/http status codes used by the program.                              *)
(***************************************************************************)
StatusOK == 200
StatusNoContent == 204
StatusBadRequest == 400
StatusNotFound == 404
StatusMethodNotAllowed == 405
StatusInternalServerError == 500

(***************************************************************************)
(* Inputs.  Strings that the code parses are sequences of characters.      *)
(***************************************************************************)
Methods == {"GET", "POST", "OPTIONS"}

\* values of the incoming X-Request-ID header; "" is an absent or empty header
RequestIDHeaders == {"", "client-7"}

\* the n-th identifier produced by uuid.New()
uuidNew(n) == IF n = 1 THEN "uuid-1"
              ELSE IF n = 2 THEN "uuid-2"
              ELSE IF n = 3 THEN "uuid-3"
              ELSE "uuid-4"

Hex4 == <<"0", "0", "0", "0">>
Hex8 == Hex4 \o Hex4
\* "00000000-0000-0000-0000-00000000000a"
ValidID == Hex8 \o <<"-">> \o Hex4 \o <<"-">> \o Hex4 \o <<"-">> \o Hex4
           \o <<"-">> \o Hex8 \o <<"0", "0", "0", "a">>
MalformedID == <<"n", "o", "t", "-", "a", "-", "u", "u", "i", "d">>

\* request paths, as sequences of segments
Paths == { <<"health">>,
           <<"api", "v1", "users">>,
           <<"api", "v1", "users", ValidID>>,
           <<"api", "v1", "users", MalformedID>>,
           <<"nope">> }

\* values of the limit and offset query parameters; <<>> is an absent one
LimitStrings == { <<>>, <<"5", "0", "0">>, <<"a", "b">> }
OffsetStrings == { <<>>, <<"-", "5">>,
                   <<"2", "1", "4", "7", "4", "8", "3", "6", "4", "8">> }

\* integers handed directly to Service.ListUsers in SpecService
WideInts == { MulAdd10(FromInt(214748364), 7),       \* 2^31 - 1
              MulAdd10(FromInt(214748364), 8),       \* 2^31
              MulAdd10(FromInt(429496729), 6),       \* 2^32
              MulAdd10(FromInt(429496730), 1),       \* 2^32 + 5
              Neg(MulAdd10(FromInt(214748364), 8)) } \* -2^31
ProbeLimits == { FromInt(n) : n \in (0 - 2)..MaxProbe } \cup WideInts
ProbeOffsets == { FromInt(n) : n \in {0 - 5, 0 - 1, 0, 1, 5} } \cup WideInts

VARIABLES
    req,      \* per connection goroutine: the request being served
    served,   \* number of requests accepted so far
    panicked, \* some handler has panicked since the server started
    uuids,    \* number of identifiers uuid.New() has produced
    svc,      \* SpecService: one direct call of Service.ListUsers
    proc      \* SpecLifecycle: the process, its goroutines and connections

vars == <<req, served, panicked, uuids, svc, proc>>

(***************************************************************************)
(* The middleware chain, middleware.go 21-28.  A handler is the sequence   *)
(* of stages a request passes, outermost first; wrapping a handler puts a  *)
(* stage in front of it.                                                   *)
(***************************************************************************)
\* variant: the recovery stage wraps the logging stage
applyMiddleware_recoveryOutside(h) ==
    LET h1 == <<"logging">> \o h
        h2 == <<"recovery">> \o h1
        h3 == <<"requestID">> \o h2
        h4 == <<"cors">> \o h3
    IN  h4

\* variant: the logging stage wraps the correlation-identifier stage
applyMiddleware_swapped(h) ==
    LET h1 == <<"recovery">> \o h
        h2 == <<"requestID">> \o h1
        h3 == <<"logging">> \o h2
        h4 == <<"cors">> \o h3
    IN  h4

applyMiddleware(h) ==
    LET h1 == <<"recovery">> \o h
        h2 == <<"logging">> \o h1
        h3 == <<"requestID">> \o h2
        h4 == <<"cors">> \o h3
    IN  h4

\* routes.go 10-35: the mux wrapped by the middleware chain
routes == applyMiddleware(<<"mux">>)

HeaderNames == { "Access-Control-Allow-Origin", "Access-Control-Allow-Methods",
                 "Access-Control-Allow-Headers", "Access-Control-Max-Age",
                 "X-Request-ID", "Content-Type", "X-Content-Type-Options" }

NoHeaders == [h \in HeaderNames |-> ""]

NoPayload == [kind |-> "none", message |-> "", limit |-> FromInt(0),
              offset |-> FromInt(0)]

NoParams == [Limit |-> 0, Offset |-> 0]

\* a connection goroutine between requests
IdleReq ==
    [ pc |-> "idle",
      method |-> "", path |-> <<>>, hdrRequestID |-> "",
      depth |-> 0, events |-> <<>>,
      ctxRequestID |-> "", ctxHasLogger |-> FALSE, loggerRequestID |-> "",
      header |-> NoHeaders, wroteHeader |-> FALSE, status |-> 0,
      sentHeader |-> NoHeaders, body |-> <<>>,
      wrapped |-> FALSE, statusCode |-> 0, bytesWritten |-> 0,
      panicking |-> FALSE, recovered |-> 0, panicSeenBy |-> {},
      aborted |-> FALSE,
      logs |-> <<>>,
      limitStr |-> <<>>, offsetStr |-> <<>>,
      limit |-> FromInt(0), offset |-> FromInt(0),
      pending |-> NoPayload, storeErr |-> "", svcErr |-> "",
      storeCalls |-> <<>> ]

(***************************************************************************)
(* The response writers.                                                   *)
(***************************************************************************)
\* the stage at index i of the chain writes through the wrapper that
\* loggingMiddleware created iff the logging stage is in front of it
ThroughWrapper(i) == \E j \in 1..(i - 1) : routes[j] = "logging"

\* net/http response.WriteHeader: the first call fixes the status and the
\* header sent to the client, later calls are superfluous and ignored
connWriteHeader(q, code) ==
    IF q.wroteHeader THEN q
    ELSE [q EXCEPT !.wroteHeader = TRUE, !.status = code,
                   !.sentHeader = q.header]

BodyAllowed(code) == code # StatusNoContent

\* net/http response.Write: an implicit WriteHeader(200) when none was made
connWrite(q, payload) ==
    LET q1 == connWriteHeader(q, StatusOK)
    IN  IF BodyAllowed(q1.status) THEN [q1 EXCEPT !.body = Append(@, payload)]
                                  ELSE q1

\* number of bytes connWrite reports as written
Written(q, payload) ==
    IF BodyAllowed(connWriteHeader(q, StatusOK).status) THEN 1 ELSE 0

\* responseWriter.WriteHeader, middleware.go 140-143
rwWriteHeader(q, code) ==
    connWriteHeader([q EXCEPT !.statusCode = code], code)

\* responseWriter.Write, middleware.go 145-149
rwWrite(q, payload) ==
    [connWrite(q, payload) EXCEPT !.bytesWritten = @ + Written(q, payload)]

\* w.WriteHeader and w.Write as seen by the stage at index i
WriteHeader(q, i, code) ==
    IF ThroughWrapper(i) THEN rwWriteHeader(q, code)
                         ELSE connWriteHeader(q, code)

Write(q, i, payload) ==
    IF ThroughWrapper(i) THEN rwWrite(q, payload) ELSE connWrite(q, payload)

SetHeader(q, name, value) == [q EXCEPT !.header[name] = value]

TextPayload(msg) == [NoPayload EXCEPT !.kind = "text", !.message = msg]

\* net/http http.Error: plain-text content type, the status, the message
httpError(q, i, msg, code) ==
    LET q1 == SetHeader(q, "Content-Type", "text/plain; charset=utf-8")
        q2 == SetHeader(q1, "X-Content-Type-Options", "nosniff")
        q3 == WriteHeader(q2, i, code)
    IN  Write(q3, i, TextPayload(msg))

\* a log record
LogRecord(level, msg, requestID, status, bytes) ==
    [level |-> level, msg |-> msg, request_id |-> requestID,
     status |-> status, bytes |-> bytes, error |-> ""]

\* an error record of the handlers' logger, with the error as an attribute
ErrorRecord(msg, requestID, err) ==
    [LogRecord("ERROR", msg, requestID, 0, 0) EXCEPT !.error = err]

\* position in the chain of the stage about to be entered / that is returning
NextStage(q) == routes[q.depth + 1]
TopStage(q) == routes[q.depth]

Enter(q, stage) == [q EXCEPT !.depth = @ + 1,
                             !.events = Append(@, <<"enter", stage>>)]
Leave(q, stage) == [q EXCEPT !.depth = @ - 1,
                             !.events = Append(@, <<"exit", stage>>)]

\* net/http conn.serve after the server's handler: a panic that got this far
\* is recovered by the connection goroutine, which closes the connection;
\* otherwise the response is finished, with status 200 if none was written
connServeFinish(q) ==
    IF q.panicking
    THEN [q EXCEPT !.pc = "done", !.aborted = TRUE,
                   !.panicSeenBy = @ \cup {"conn.serve"}]
    ELSE [connWriteHeader(q, StatusOK) EXCEPT !.pc = "done"]

\* corsMiddleware, requestIDMiddleware and the mux do nothing after the
\* handler they called has returned or panicked: control passes through
\* their frames to the nearest frame of loggingMiddleware or
\* recoveryMiddleware, or back to the connection's serve loop
RECURSIVE Return(_)
Return(q) ==
    IF q.depth = 0 THEN connServeFinish(q)
    ELSE IF TopStage(q) \in {"cors", "requestID", "mux"}
    THEN Return(Leave(IF q.panicking
                      THEN [q EXCEPT !.panicSeenBy = @ \cup {TopStage(q)}]
                      ELSE q, TopStage(q)))
    ELSE [q EXCEPT !.pc = "unwind"]

(***************************************************************************)
(* One request on connection goroutine c.  q is the request's state.       *)
(***************************************************************************)
Set(c, q) == req' = [req EXCEPT ![c] = q]

\* net/http conn.serve reads a request and calls the server's handler
ServeHTTP(c) ==
    /\ req[c].pc = "idle"
    /\ served < MaxRequests
    /\ \E m \in Methods, p \in Paths, h \in RequestIDHeaders :
          Set(c, [IdleReq EXCEPT !.pc = "chain", !.method = m, !.path = p,
                                 !.hdrRequestID = h])
    /\ served' = served + 1
    /\ UNCHANGED <<panicked, uuids, svc, proc>>

\* variant: pre-flight requests are passed on to the next stage
IsPreflight_never(method) == FALSE

\* middleware.go 40
IsPreflight(method) == method = "OPTIONS"

\* middleware.go 31-47
corsMiddleware(c) ==
    LET q  == req[c]
        i  == q.depth + 1
        q1 == SetHeader(q, "Access-Control-Allow-Origin", "*")
        q2 == SetHeader(q1, "Access-Control-Allow-Methods",
                        "GET, POST, PUT, DELETE, OPTIONS")
        q3 == SetHeader(q2, "Access-Control-Allow-Headers",
                        "Content-Type, X-User-Email, X-Request-ID")
        q4 == SetHeader(q3, "Access-Control-Max-Age", "3600")
    IN  /\ q.pc = "chain"
        /\ NextStage(q) = "cors"
        /\ IF IsPreflight(q.method)
           THEN Set(c, Return(Enter(WriteHeader(q4, i, StatusNoContent),
                                    "cors")))
           ELSE Set(c, Enter(q4, "cors"))
        /\ UNCHANGED <<served, panicked, uuids, svc, proc>>

\* variant: no identifier is generated for a request without the header
NewRequestID_noFresh(hdr, n) == hdr

\* variant: the incoming header is ignored
NewRequestID_alwaysFresh(hdr, n) == uuidNew(n)

\* middleware.go 52-55: the incoming header, or a fresh uuid when it is empty
NewRequestID(hdr, n) == IF hdr = "" THEN uuidNew(n) ELSE hdr

\* middleware.go 50-64
requestIDMiddleware(c) ==
    LET q         == req[c]
        requestID == NewRequestID(q.hdrRequestID, uuids + 1)
        q1        == SetHeader(q, "X-Request-ID", requestID)
    IN  /\ q.pc = "chain"
        /\ NextStage(q) = "requestID"
        /\ Set(c, Enter([q1 EXCEPT !.ctxRequestID = requestID], "requestID"))
        /\ uuids' = IF q.hdrRequestID = "" THEN uuids + 1 ELSE uuids
        /\ UNCHANGED <<served, panicked, svc, proc>>

\* middleware.go 152-157: the identifier stored in the request context, ""
\* when the context holds none
RequestIDFromContext(q) == q.ctxRequestID

\* middleware.go 67-103: up to the call of the next handler
loggingMiddleware(c) ==
    LET q == req[c]
    IN  /\ q.pc = "chain"
        /\ NextStage(q) = "logging"
        /\ Set(c, Enter([q EXCEPT !.ctxHasLogger = TRUE,
                                  !.loggerRequestID = RequestIDFromContext(q),
                                  !.wrapped = TRUE,
                                  !.statusCode = StatusOK,
                                  !.bytesWritten = 0], "logging"))
        /\ UNCHANGED <<served, panicked, uuids, svc, proc>>

\* middleware.go 105-110: reached only when the next handler returns; a
\* panic unwinding through this frame skips the completion record
loggingMiddlewareReturn(c) ==
    LET q == req[c]
    IN  /\ q.pc = "unwind"
        /\ q.depth >= 1
        /\ TopStage(q) = "logging"
        /\ IF q.panicking
           THEN Set(c, Return(Leave(
                         [q EXCEPT !.panicSeenBy = @ \cup {"logging"}],
                         "logging")))
           ELSE Set(c, Return(Leave([q EXCEPT !.logs = Append(@,
                                 LogRecord("INFO", "request completed",
                                           q.loggerRequestID, q.statusCode,
                                           q.bytesWritten))], "logging")))
        /\ UNCHANGED <<served, panicked, uuids, svc, proc>>

\* middleware.go 115-129: the deferred function is registered, next is called
recoveryMiddleware(c) ==
    LET q == req[c]
    IN  /\ q.pc = "chain"
        /\ NextStage(q) = "recovery"
        /\ Set(c, Enter(q, "recovery"))
        /\ UNCHANGED <<served, panicked, uuids, svc, proc>>

\* variant: the deferred function does not stop the panic
recover_nil(q) == q

\* middleware.go 118: recover() returns the panic value and stops the panic
recover(q) == [q EXCEPT !.panicking = FALSE, !.recovered = @ + 1]

\* middleware.go 117-127: the deferred function, run when the frame is left
recoveryMiddlewareDeferred(c) ==
    LET q  == req[c]
        i  == q.depth
        \* logger.FromContext: the request logger if logging is in front
        id == IF ThroughWrapper(i) /\ q.ctxHasLogger THEN q.loggerRequestID
                                                     ELSE ""
        q1 == recover(q)
        q2 == [q1 EXCEPT !.logs = Append(@,
                  LogRecord("ERROR", "panic recovered", id, 0, 0))]
        q3 == httpError(q2, i, "Internal Server Error",
                        StatusInternalServerError)
    IN  /\ q.pc = "unwind"
        /\ q.depth >= 1
        /\ TopStage(q) = "recovery"
        /\ IF q.panicking
           THEN Set(c, Return(Leave(
                         IF q1.panicking
                         THEN [q EXCEPT !.panicSeenBy = @ \cup {"recovery"}]
                         ELSE q3, "recovery")))
           ELSE Set(c, Return(Leave(q, "recovery")))
        /\ UNCHANGED <<served, panicked, uuids, svc, proc>>

\* net/http conn.serve loops: the goroutine waits for the connection's next
\* request
connServeNext(c) ==
    /\ req[c].pc = "done"
    /\ Set(c, IdleReq)
    /\ UNCHANGED <<served, panicked, uuids, svc, proc>>

(***************************************************************************)
(* Route dispatch, routes.go 10-23.                                        *)
(***************************************************************************)
\* http.StripPrefix("/api/v1", v1Mux)
StripPrefix(path) == SubSeq(path, 3, Len(path))

\* the handler a method and path are dispatched to, or the mux's own answer
Route(method, path) ==
    IF path = <<"health">>
    THEN IF method = "GET" THEN "handleHealthCheck" ELSE "405"
    ELSE IF Len(path) >= 2 /\ path[1] = "api" /\ path[2] = "v1"
    THEN LET p == StripPrefix(path)
         IN  IF Len(p) = 1 /\ p[1] = "users"
             THEN IF method = "GET" THEN "HandleListUsers" ELSE "405"
             ELSE IF Len(p) = 2 /\ p[1] = "users"
             THEN IF method = "GET" THEN "HandleGetUser" ELSE "405"
             ELSE "404"
    ELSE "404"

\* r.PathValue("id") under the pattern "GET /users/{id}"
PathValue(path) == IF Len(path) = 4 THEN path[4] ELSE <<>>

muxServeHTTP(c) ==
    LET q     == req[c]
        i     == q.depth + 1
        q1    == Enter(q, "mux")
        route == Route(q.method, q.path)
    IN  /\ q.pc = "chain"
        /\ NextStage(q) = "mux"
        /\ IF route = "404"
           THEN Set(c, Return(httpError(q1, i, "404 page not found",
                                        StatusNotFound)))
           ELSE IF route = "405"
           THEN Set(c, Return(httpError(q1, i, "Method Not Allowed",
                                        StatusMethodNotAllowed)))
           ELSE Set(c, [q1 EXCEPT !.pc = route])
        /\ UNCHANGED <<served, panicked, uuids, svc, proc>>

(***************************************************************************)
(* Handlers, handler.go 31-117, and the health check.  The handlers run    *)
(* inside the mux, the innermost element of the chain.                     *)
(***************************************************************************)
HandlerIndex == Len(routes)

ErrorPayload(message) == [NoPayload EXCEPT !.kind = "error", !.message = message]

\* handler.go 64-70 up to the encoding of the payload
respondWithJSON(q, code, payload) ==
    LET q1 == SetHeader(q, "Content-Type", "application/json")
        q2 == WriteHeader(q1, HandlerIndex, code)
    IN  [q2 EXCEPT !.pending = payload, !.pc = "Encode"]

\* handler.go 72-74
respondWithError(q, code, message) ==
    respondWithJSON(q, code, ErrorPayload(message))

\* handler.go 67, and the Fprintf of the health check: the body is written
\* and the handler returns
Encode(c) ==
    LET q == req[c]
    IN  /\ q.pc = "Encode"
        /\ Set(c, Return(Write(q, HandlerIndex, q.pending)))
        /\ UNCHANGED <<served, panicked, uuids, svc, proc>>

handleHealthCheck(c) ==
    LET q == req[c]
    IN  /\ q.pc = "handleHealthCheck"
        /\ Set(c, respondWithJSON(q, StatusOK,
                     [NoPayload EXCEPT !.kind = "health"]))
        /\ UNCHANGED <<served, panicked, uuids, svc, proc>>

StoreCall(op, params, id) == [op |-> op, params |-> params, id |-> id]

\* causes of a store failure other than pgx.ErrNoRows
StoreFailures == {"connection refused", "context deadline exceeded"}

\* pgx.ErrNoRows
ErrNoRows == "no rows"

\* the error a store query returns for an outcome, "" for none
StoreError(outcome) ==
    IF outcome \in StoreFailures \cup {ErrNoRows} THEN outcome ELSE ""

\* variant: the cause of the failure is the message of the answer
InternalErrorMessage_echo(err) == err

\* handler.go 56, 107: the message of a 500 answer does not depend on the
\* error
InternalErrorMessage(err) == "internal server error"

\* what a store query can do: answer, fail, or panic
ListOutcomes == {"rows", "panic"} \cup StoreFailures
GetOutcomes == {"row", ErrNoRows, "panic"} \cup StoreFailures

\* handler.go 179-197: Service.ListUsers clamps the arguments and queries
\* the store; the result is the error it returns, "" for none
ServiceListUsers(q, limit, offset, outcome) ==
    [q EXCEPT !.storeCalls = Append(@, StoreCall("ListUsers",
                                 ListUsersParams(limit, offset), <<>>)),
              !.storeErr = StoreError(outcome),
              !.svcErr = StoreError(outcome)]

\* variant: a negative value is accepted
InvalidParam_errOnly(str, parsed) == str # <<>> /\ parsed.err

\* handler.go 83-88, 93-98: a parameter that is present is rejected when
\* strconv.Atoi fails or the value is negative
InvalidParam(str, parsed) ==
    str # <<>> /\ (parsed.err \/ IsNegative(parsed.val))

\* handler.go 76-117, up to the encoding of the response body
HandleListUsers(c) ==
    LET q == req[c]
    IN  /\ q.pc = "HandleListUsers"
        /\ \E limitStr \in LimitStrings, offsetStr \in OffsetStrings,
              outcome \in ListOutcomes :
              LET parsedLimit  == Atoi(limitStr)
                  parsedOffset == Atoi(offsetStr)
                  badLimit  == InvalidParam(limitStr, parsedLimit)
                  badOffset == InvalidParam(offsetStr, parsedOffset)
                  limit  == IF limitStr # <<>> THEN parsedLimit.val
                                               ELSE FromInt(DefaultLimit)
                  offset == IF offsetStr # <<>> THEN parsedOffset.val
                                                ELSE FromInt(0)
                  q1 == [q EXCEPT !.limitStr = limitStr,
                                  !.offsetStr = offsetStr]
                  q2 == ServiceListUsers(
                           [q1 EXCEPT !.limit = limit, !.offset = offset],
                           limit, offset, outcome)
                  panics == ~badLimit /\ ~badOffset /\ outcome = "panic"
              IN  /\ IF badLimit
                     THEN Set(c, respondWithError(q1, StatusBadRequest,
                                                  "invalid limit parameter"))
                     ELSE IF badOffset
                     THEN Set(c, respondWithError(
                                   [q1 EXCEPT !.limit = limit],
                                   StatusBadRequest,
                                   "invalid offset parameter"))
                     ELSE IF panics
                     THEN Set(c, Return([q2 EXCEPT !.panicking = TRUE]))
                     ELSE IF q2.svcErr # ""
                     \* the base logger h.logger carries no request fields
                     THEN Set(c, respondWithError(
                                   [q2 EXCEPT !.logs = Append(@,
                                       ErrorRecord("failed to list users",
                                                   "", q2.svcErr))],
                                   StatusInternalServerError,
                                   InternalErrorMessage(q2.svcErr)))
                     ELSE Set(c, respondWithJSON(q2, StatusOK,
                                   [NoPayload EXCEPT !.kind = "users",
                                                     !.limit = limit,
                                                     !.offset = offset]))
                  /\ panicked' = (panicked \/ panics)
        /\ UNCHANGED <<served, uuids, svc, proc>>

\* uuid.Parse on the canonical 36-character form: hyphens at 9, 14, 19, 24
\* and hexadecimal digits elsewhere (the model's identifiers have none of
\* the lengths 32, 38 and 45 of the other accepted forms)
HexChars == {"0", "1", "2", "3", "4", "5", "6", "7", "8", "9",
             "a", "b", "c", "d", "e", "f", "A", "B", "C", "D", "E", "F"}

\* variant: any non-empty string is accepted
uuidParse_nonEmpty(s) == Len(s) > 0

uuidParse(s) ==
    /\ Len(s) = 36
    /\ \A k \in 1..36 : IF k \in {9, 14, 19, 24} THEN s[k] = "-"
                                                 ELSE s[k] \in HexChars

ErrUserNotFound == "user not found"

\* variant: the store's error is returned as it is
GetUserByIDError_raw(err) == err

\* handler.go 157-162: pgx.ErrNoRows becomes ErrUserNotFound, any other
\* error is returned as it is
GetUserByIDError(err) == IF err = ErrNoRows THEN ErrUserNotFound ELSE err

\* handler.go 149-162: Service.GetUserByID queries the store by identifier
ServiceGetUserByID(q, id, outcome) ==
    [q EXCEPT !.storeCalls = Append(@, StoreCall("GetUserByID", NoParams, id)),
              !.storeErr = StoreError(outcome),
              !.svcErr = GetUserByIDError(StoreError(outcome))]

\* handler.go 31-62, up to the encoding of the response body
HandleGetUser(c) ==
    LET q     == req[c]
        idStr == PathValue(q.path)
        badID == idStr = <<>> \/ ~uuidParse(idStr)
    IN  /\ q.pc = "HandleGetUser"
        /\ \E outcome \in GetOutcomes :
              LET q2     == ServiceGetUserByID(q, idStr, outcome)
                  panics == ~badID /\ outcome = "panic"
              IN  /\ IF idStr = <<>>
                     THEN Set(c, respondWithError(q, StatusBadRequest,
                                                  "user ID is required"))
                     ELSE IF ~uuidParse(idStr)
                     THEN Set(c, respondWithError(q, StatusBadRequest,
                                                  "invalid user ID format"))
                     ELSE IF panics
                     THEN Set(c, Return([q2 EXCEPT !.panicking = TRUE]))
                     ELSE IF q2.svcErr = ErrUserNotFound
                     THEN Set(c, respondWithError(q2, StatusNotFound,
                                                  "user not found"))
                     ELSE IF q2.svcErr # ""
                     THEN Set(c, respondWithError(
                                   [q2 EXCEPT !.logs = Append(@,
                                       ErrorRecord("failed to get user",
                                                   "", q2.svcErr))],
                                   StatusInternalServerError,
                                   InternalErrorMessage(q2.svcErr)))
                     ELSE Set(c, respondWithJSON(q2, StatusOK,
                                   [NoPayload EXCEPT !.kind = "user"]))
                  /\ panicked' = (panicked \/ panics)
        /\ UNCHANGED <<served, uuids, svc, proc>>

HandlerPCs == {"handleHealthCheck", "HandleListUsers", "HandleGetUser",
               "Encode"}

\* a defect in a handler, the service or the store: the goroutine panics at
\* any point of the handler, before or after the response was started
HandlerPanic(c) ==
    LET q == req[c]
    IN  /\ q.pc \in HandlerPCs
        /\ Set(c, Return([q EXCEPT !.panicking = TRUE]))
        /\ panicked' = TRUE
        /\ UNCHANGED <<served, uuids, svc, proc>>

(***************************************************************************)
(* The process, main.go 20-81: the main goroutine, the goroutine that runs *)
(* the accept loop, and one goroutine per accepted connection.  What a     *)
(* request does inside the middleware chain is the subject of Spec; here a *)
(* connection has a request in flight or is idle between requests.         *)
(***************************************************************************)
\* connections the listener accepts over the life of the process
MaxConnections == 2
\* SIGINT and SIGTERM signals delivered to the process
MaxSignals == 1

LifeConns == 1..MaxConnections

(***************************************************************************)
(* Configuration, config.go 55-136.  Durations are in seconds.             *)
(***************************************************************************)
DefaultReadTimeout == 15
DefaultWriteTimeout == 15
DefaultIdleTimeout == 60
DefaultShutdownTimeout == 30
\* main.go 72: the deadline of the context given to Shutdown
DrainTimeout == 30

EnvKeys == { "SERVER_READ_TIMEOUT", "SERVER_WRITE_TIMEOUT",
             "SERVER_IDLE_TIMEOUT", "SERVER_SHUTDOWN_TIMEOUT" }

\* values of an environment variable; "" is an unset or empty one
EnvValues == { "", "5s", "2m", "soon" }

NoEnv == [k \in EnvKeys |-> ""]

\* time.ParseDuration on the values above: the duration, or an error
ParseDuration(value) ==
    IF value = "5s" THEN [err |-> FALSE, val |-> 5]
    ELSE IF value = "2m" THEN [err |-> FALSE, val |-> 2 * 60]
    ELSE [err |-> TRUE, val |-> 0]

\* config.go 129-136
getDuration(env, key, defaultValue) ==
    IF env[key] # "" /\ ~ParseDuration(env[key]).err
    THEN ParseDuration(env[key]).val
    ELSE defaultValue

\* config.go 69-75
Load(env) ==
    [ ReadTimeout |-> getDuration(env, "SERVER_READ_TIMEOUT",
                                  DefaultReadTimeout),
      WriteTimeout |-> getDuration(env, "SERVER_WRITE_TIMEOUT",
                                   DefaultWriteTimeout),
      IdleTimeout |-> getDuration(env, "SERVER_IDLE_TIMEOUT",
                                  DefaultIdleTimeout),
      ShutdownTimeout |-> getDuration(env, "SERVER_SHUTDOWN_TIMEOUT",
                                      DefaultShutdownTimeout) ]

NoConfig == [ReadTimeout |-> 0, WriteTimeout |-> 0, IdleTimeout |-> 0,
             ShutdownTimeout |-> 0]

\* middleware.go 197-203: the timeouts of the http.Server that New creates
New(cfg) ==
    [ReadTimeout |-> cfg.ReadTimeout, WriteTimeout |-> cfg.WriteTimeout,
     IdleTimeout |-> cfg.IdleTimeout]

\* the process before main starts
NewProc ==
    [ main |-> "slog",        \* position of the main goroutine
      accept |-> "none",      \* position of the goroutine of main.go 57-62
      listener |-> "none",    \* the listening socket: none, open, closed
      tracked |-> FALSE,      \* the listener is registered with http.Server
      inShutdown |-> FALSE,   \* http.Server.inShutdown
      notify |-> FALSE,       \* signal.Notify has registered the channel
      quit |-> 0,             \* signals buffered in the channel quit
      signals |-> 0,          \* signals delivered so far
      conn |-> [c \in LifeConns |-> "none"],
      sent |-> [c \in LifeConns |-> 0],    \* responses sent per connection
      drainSet |-> {},        \* connections with a request in flight when
                              \* Shutdown was called
      acceptErr |-> "",       \* the error srv.Start returned, if not closed
      startErr |-> "",        \* the error srv.Start returned
      logger |-> FALSE, tracer |-> "none", pool |-> "none",
      loggerInits |-> 0,      \* calls of slog.New
      tracerInits |-> 0,      \* successful calls of telemetry.Init
      tracerShutdowns |-> 0,  \* calls of the function telemetry.Init returned
      env |-> NoEnv,          \* the environment of the process
      cfg |-> NoConfig,       \* the configuration config.Load returned
      httpServer |-> New(NoConfig),  \* the timeouts of the http.Server
      drainTimeout |-> 0,     \* the deadline of the context of Shutdown
      log |-> {},             \* messages of the log records written
      exit |-> "" ]           \* "" while the process runs, then its status

Running(p) == p.exit = ""

Active(p) == { c \in LifeConns : p.conn[c] = "active" }

Logged(p, msg) == [p EXCEPT !.log = @ \cup {msg}]

\* variant: the functions deferred by main run whenever the process ends
Exit_deferred(p, status) ==
    [p EXCEPT !.exit = status,
              !.main = "exited",
              !.pool = IF @ = "open" THEN "closed" ELSE @,
              !.tracer = IF @ = "up" THEN "down" ELSE @,
              !.listener = IF @ = "open" THEN "closed" ELSE @,
              !.conn = [c \in LifeConns |->
                           IF p.conn[c] = "active" THEN "reset"
                           ELSE IF p.conn[c] = "idle" THEN "closed"
                           ELSE p.conn[c]]]

\* the process ends: the kernel closes its sockets, which cuts off the
\* requests still in flight; os.Exit runs no deferred function, and when
\* main returns its deferred functions have run already
Exit(p, status) ==
    [p EXCEPT !.exit = status,
              !.main = "exited",
              !.listener = IF @ = "open" THEN "closed" ELSE @,
              !.conn = [c \in LifeConns |->
                           IF p.conn[c] = "active" THEN "reset"
                           ELSE IF p.conn[c] = "idle" THEN "closed"
                           ELSE p.conn[c]]]

SetProc(p) ==
    /\ proc' = p
    /\ UNCHANGED <<req, served, panicked, uuids, svc>>

\* main.go 22-25
slogNew ==
    /\ Running(proc) /\ proc.main = "slog"
    /\ SetProc([proc EXCEPT !.logger = TRUE, !.loggerInits = @ + 1,
                            !.main = "config"])

\* main.go 28-32
configLoad ==
    /\ Running(proc) /\ proc.main = "config"
    /\ \/ SetProc([proc EXCEPT !.cfg = Load(proc.env), !.main = "telemetry"])
       \/ SetProc(Exit(Logged(proc, "failed to load configuration"),
                       "failure"))

\* main.go 35-40
telemetryInit ==
    /\ Running(proc) /\ proc.main = "telemetry"
    /\ \/ SetProc([proc EXCEPT !.tracer = "up", !.tracerInits = @ + 1,
                               !.main = "database"])
       \/ SetProc(Exit(Logged(proc, "failed to initialize telemetry"),
                       "failure"))

\* main.go 43-48: os.Exit does not run the deferred shutdown()
databaseConnect ==
    /\ Running(proc) /\ proc.main = "database"
    /\ \/ SetProc([proc EXCEPT !.pool = "open", !.main = "go"])
       \/ SetProc(Exit(Logged(proc, "failed to connect to database"),
                       "failure"))

\* main.go 51-62: the server is built and the goroutine is started
goStart ==
    /\ Running(proc) /\ proc.main = "go"
    /\ SetProc([proc EXCEPT !.httpServer = New(proc.cfg),
                            !.accept = "spawned", !.main = "notify"])

\* main.go 65-66
signalNotify ==
    /\ Running(proc) /\ proc.main = "notify"
    /\ SetProc([proc EXCEPT !.notify = TRUE, !.main = "wait"])

\* SIGINT or SIGTERM is delivered: to the channel once signal.Notify has
\* registered it (dropped when the buffer of one is full), otherwise the Go
\* runtime's default action ends the process
Signal ==
    /\ Running(proc)
    /\ proc.signals < MaxSignals
    /\ LET p == [proc EXCEPT !.signals = @ + 1]
       IN  IF proc.notify
           THEN SetProc([p EXCEPT !.quit = 1])
           ELSE SetProc(Exit(p, "killed"))

\* variant: the server is closed, not drained
closeOnShutdown_all(st) ==
    IF st = "idle" THEN "closed" ELSE IF st = "active" THEN "reset" ELSE st

\* http.Server.Shutdown closes the idle connections and leaves the others
closeOnShutdown(st) == IF st = "idle" THEN "closed" ELSE st

\* main.go 67-75: the signal is received and Shutdown is called, which
\* marks the server as shutting down, closes its listeners and the idle
\* connections, and waits
mainQuit ==
    /\ Running(proc) /\ proc.main = "wait"
    /\ proc.quit = 1
    /\ SetProc([Logged(proc, "shutting down server...") EXCEPT
                  !.quit = 0,
                  !.inShutdown = TRUE,
                  !.listener = IF proc.tracked /\ @ = "open" THEN "closed"
                                                             ELSE @,
                  !.conn = [c \in LifeConns |-> closeOnShutdown(proc.conn[c])],
                  !.drainSet = Active(proc),
                  !.drainTimeout = DrainTimeout,
                  !.main = "Shutdown"])

\* main.go 75, 80: Shutdown returns nil once no connection is active
ShutdownDone ==
    /\ Running(proc) /\ proc.main = "Shutdown"
    /\ Active(proc) = {}
    /\ SetProc([Logged(proc, "server exited") EXCEPT !.main = "dbPoolClose"])

\* variant: the context of Shutdown has no deadline
ctxExpires_background == FALSE

\* main.go 72: the context of Shutdown expires after 30 seconds
ctxExpires == TRUE

\* main.go 75-78: the context expires before the shutdown is complete,
\* Shutdown returns its error
ShutdownDeadline ==
    /\ Running(proc) /\ proc.main = "Shutdown"
    /\ ctxExpires
    /\ Active(proc) # {}
    /\ SetProc(Exit(Logged(proc, "server forced to shutdown"), "failure"))

\* main.go 48, run when main returns
dbPoolClose ==
    /\ Running(proc) /\ proc.main = "dbPoolClose"
    /\ SetProc([proc EXCEPT !.pool = "closed", !.main = "telemetryShutdown"])

\* main.go 48: pgxpool's Close waits, with no bound, until every connection
\* has been returned to the pool; here it does not return
dbPoolCloseBlocks ==
    /\ Running(proc) /\ proc.main = "dbPoolClose"
    /\ SetProc([proc EXCEPT !.main = "dbPoolCloseBlocked"])

\* main.go 40, run when main returns; then the process ends with status 0
telemetryShutdown ==
    /\ Running(proc) /\ proc.main = "telemetryShutdown"
    /\ SetProc(Exit([proc EXCEPT !.tracer = "down",
                                 !.tracerShutdowns = @ + 1], "success"))

ErrServerClosed == "http: Server closed"

\* variant: every error of srv.Start is logged
LogsServerError_any(err) == err # ""

\* main.go 59: the condition under which the error of srv.Start is logged
LogsServerError(err) == err # "" /\ err # ErrServerClosed

\* main.go 59-62: srv.Start has returned err and the goroutine ends
StartReturned(p, err) ==
    LET p1 == [p EXCEPT !.startErr = err, !.accept = "ended",
                        !.acceptErr = IF err = ErrServerClosed THEN "" ELSE err]
    IN  IF LogsServerError(err) THEN Logged(p1, "server error") ELSE p1

\* variant: the server never counts as shutting down
shuttingDown_never(p) == FALSE

\* http.Server.shuttingDown
shuttingDown(p) == p.inShutdown

\* main.go 58-59, middleware.go 209-211: ListenAndServe returns
\* ErrServerClosed when the server is shutting down, otherwise it binds the
\* address
Start ==
    /\ Running(proc) /\ proc.accept = "spawned"
    /\ LET p == Logged(proc, "starting server")
       IN  IF shuttingDown(proc)
           THEN SetProc(StartReturned(p, ErrServerClosed))
           ELSE \/ SetProc([p EXCEPT !.listener = "open", !.accept = "Serve"])
                \/ SetProc(StartReturned(p, "bind"))

\* http.Server.Serve registers the listener, or closes it and returns
\* ErrServerClosed when the server is shutting down
Serve ==
    /\ Running(proc) /\ proc.accept = "Serve"
    /\ IF shuttingDown(proc)
       THEN SetProc(StartReturned([proc EXCEPT !.listener = "closed"],
                                  ErrServerClosed))
       ELSE SetProc([proc EXCEPT !.tracked = TRUE, !.accept = "accept"])

\* the accept loop accepts a connection, whose first request is in flight
Accept(c) ==
    /\ Running(proc) /\ proc.accept = "accept"
    /\ proc.listener = "open"
    /\ proc.conn[c] = "none"
    /\ served < MaxRequests
    /\ proc' = [proc EXCEPT !.conn[c] = "active"]
    /\ served' = served + 1
    /\ UNCHANGED <<req, panicked, uuids, svc>>

\* Accept fails on the listener that Shutdown closed: Serve returns
\* ErrServerClosed, which main.go 59 does not log
AcceptClosed ==
    /\ Running(proc) /\ proc.accept = "accept"
    /\ proc.listener = "closed"
    /\ SetProc(StartReturned(proc, ErrServerClosed))

\* main.go 59-61: Accept fails for another reason, Serve closes the listener
\* and returns the error, which is logged; the goroutine ends
AcceptFails ==
    /\ Running(proc) /\ proc.accept = "accept"
    /\ proc.listener = "open"
    /\ SetProc(StartReturned([proc EXCEPT !.listener = "closed"], "accept"))

\* the handler returns and the response is sent; the connection is kept
\* alive unless the server is shutting down
Respond(c) ==
    /\ Running(proc)
    /\ proc.conn[c] = "active"
    /\ SetProc([proc EXCEPT !.sent[c] = @ + 1,
                            !.conn[c] = IF shuttingDown(proc) THEN "closed"
                                                              ELSE "idle"])

\* the next request arrives on a connection that was kept alive
NextRequest(c) ==
    /\ Running(proc)
    /\ proc.conn[c] = "idle"
    /\ served < MaxRequests
    /\ proc' = [proc EXCEPT !.conn[c] = "active"]
    /\ served' = served + 1
    /\ UNCHANGED <<req, panicked, uuids, svc>>

(***************************************************************************)
(* Specification of the request pipeline.                                  *)
(***************************************************************************)
IdleSvc == [pc |-> "off", limit |-> FromInt(0), offset |-> FromInt(0),
            params |-> NoParams]

Init ==
    /\ req = [c \in Conns |-> IdleReq]
    /\ served = 0
    /\ panicked = FALSE
    /\ uuids = 0
    /\ svc = IdleSvc
    /\ proc = NewProc

Next ==
    \E c \in Conns :
        \/ ServeHTTP(c)
        \/ corsMiddleware(c)
        \/ requestIDMiddleware(c)
        \/ loggingMiddleware(c)
        \/ recoveryMiddleware(c)
        \/ muxServeHTTP(c)
        \/ handleHealthCheck(c)
        \/ HandleListUsers(c)
        \/ HandleGetUser(c)
        \/ Encode(c)
        \/ HandlerPanic(c)
        \/ recoveryMiddlewareDeferred(c)
        \/ loggingMiddlewareReturn(c)
        \/ connServeNext(c)

Spec == Init /\ [][Next]_vars

(***************************************************************************)
(* Specification of Service.ListUsers called directly: any caller of the   *)
(* exported method, with any pair of ints.                                 *)
(***************************************************************************)
InitService ==
    /\ req = [c \in Conns |-> IdleReq]
    /\ served = 0
    /\ panicked = FALSE
    /\ uuids = 0
    /\ \E limit \in ProbeLimits, offset \in ProbeOffsets :
          svc = [pc |-> "call", limit |-> limit, offset |-> offset,
                 params |-> NoParams]
    /\ proc = NewProc

\* handler.go 179-194: the store is queried with the clamped parameters
ListUsers ==
    /\ svc.pc = "call"
    /\ svc' = [svc EXCEPT !.pc = "queried",
                          !.params = ListUsersParams(svc.limit, svc.offset)]
    /\ UNCHANGED <<req, served, panicked, uuids, proc>>

NextService == ListUsers

SpecService == InitService /\ [][NextService]_vars

(***************************************************************************)
(* The users table and its read queries.  A table has at most MaxRows      *)
(* rows; a row has its creation time and deleted_at, Null while the user   *)
(* is not soft-deleted.  Two rows may have the same creation time, and     *)
(* the order of such rows in a result is the store's choice.               *)
(***************************************************************************)
MaxRows == 3
MaxTime == 2

UserIDs == 1..MaxRows
Times == 1..MaxTime
Null == 0

NoRow == [present |-> FALSE, created_at |-> Null, deleted_at |-> Null]
Rows == {NoRow} \cup [present : {TRUE}, created_at : Times,
                      deleted_at : {Null, MaxTime}]
Tables == [UserIDs -> Rows]

\* variant: the rows of the table, soft-deleted or not
Matches_all(table) == { id \in UserIDs : table[id].present }

\* WHERE deleted_at IS NULL
Matches(table) ==
    { id \in UserIDs : table[id].present /\ table[id].deleted_at = Null }

\* ORDER BY created_at DESC: the orders the store may produce
Orderings(table, ids) ==
    { o \in [1..Cardinality(ids) -> ids] :
         /\ \A i, j \in DOMAIN o : i # j => o[i] # o[j]
         /\ \A i, j \in DOMAIN o :
               i < j => table[o[i]].created_at >= table[o[j]].created_at }

Min(a, b) == IF a < b THEN a ELSE b

ErrNegativeOffset == "OFFSET must not be negative"
ErrNegativeLimit == "LIMIT must not be negative"

\* part_006 25-34: the ListUsers query in a given order of the matches
ListUsersQuery(table, params, order) ==
    IF params.Offset < 0 THEN [err |-> ErrNegativeOffset, rows |-> <<>>]
    ELSE IF params.Limit < 0 THEN [err |-> ErrNegativeLimit, rows |-> <<>>]
    ELSE LET first == params.Offset + 1
             last  == Min(Len(order), params.Offset + params.Limit)
         IN  [err |-> "", rows |-> SubSeq(order, first, last)]

\* part_006 15-23: the GetUserByID query
GetUserByIDQuery(table, id) ==
    IF id \in Matches(table) THEN [err |-> "", rows |-> <<id>>]
                             ELSE [err |-> ErrNoRows, rows |-> <<>>]

\* handler.go 102-110: the status of the answer to a list
ListUsersStatus(err) ==
    IF err # "" THEN StatusInternalServerError ELSE StatusOK

\* handler.go 49-62: the status of the answer to a get
GetUserStatus(err) ==
    IF err = ErrUserNotFound THEN StatusNotFound
    ELSE IF err # "" THEN StatusInternalServerError
    ELSE StatusOK

\* arguments of the reads in SpecStore
StoreLimits == { FromInt(n) : n \in {0, 1, 2, 500} }
StoreOffsets == { FromInt(n) : n \in {0 - 1, 0, 1, 2} } \cup
                { MulAdd10(FromInt(214748364), 8),     \* 2^31
                  MulAdd10(FromInt(429496729), 6) }    \* 2^32

(***************************************************************************)
(* Specification of the reads against a table: one list or one get, on any *)
(* table.                                                                  *)
(***************************************************************************)
InitStore ==
    /\ req = [c \in Conns |-> IdleReq]
    /\ served = 0
    /\ panicked = FALSE
    /\ uuids = 0
    /\ \E table \in Tables :
          \/ \E limit \in StoreLimits, offset \in StoreOffsets :
                svc = [pc |-> "list", table |-> table, id |-> 0,
                       limit |-> limit, offset |-> offset, err |-> "",
                       users |-> <<>>, status |-> 0]
          \/ \E id \in UserIDs :
                svc = [pc |-> "get", table |-> table, id |-> id,
                       limit |-> FromInt(0), offset |-> FromInt(0),
                       err |-> "", users |-> <<>>, status |-> 0]
    /\ proc = NewProc

\* handler.go 179-216 and 102-116: Service.ListUsers against the table and
\* the status the handler answers with
StoreListUsers ==
    /\ svc.pc = "list"
    /\ \E order \in Orderings(svc.table, Matches(svc.table)) :
          LET res == ListUsersQuery(svc.table,
                         ListUsersParams(svc.limit, svc.offset), order)
          IN  svc' = [svc EXCEPT !.pc = "listed",
                                 !.err = res.err,
                                 !.users = res.rows,
                                 !.status = ListUsersStatus(res.err)]
    /\ UNCHANGED <<req, served, panicked, uuids, proc>>

\* handler.go 149-177 and 48-62: Service.GetUserByID against the table and
\* the status the handler answers with
StoreGetUserByID ==
    /\ svc.pc = "get"
    /\ LET res == GetUserByIDQuery(svc.table, svc.id)
           err == GetUserByIDError(res.err)
       IN  svc' = [svc EXCEPT !.pc = "got",
                              !.err = err,
                              !.users = res.rows,
                              !.status = GetUserStatus(err)]
    /\ UNCHANGED <<req, served, panicked, uuids, proc>>

NextStore == StoreListUsers \/ StoreGetUserByID

SpecStore == InitStore /\ [][NextStore]_vars

(***************************************************************************)
(* Specification of the process lifecycle.                                 *)
(***************************************************************************)
MainStep ==
    \/ slogNew
    \/ configLoad
    \/ telemetryInit
    \/ databaseConnect
    \/ goStart
    \/ signalNotify
    \/ mainQuit
    \/ ShutdownDone
    \/ ShutdownDeadline
    \/ dbPoolClose
    \/ telemetryShutdown

AcceptStep ==
    \/ Start
    \/ Serve
    \/ AcceptClosed

NextLifecycle ==
    \/ MainStep
    \/ AcceptStep
    \/ AcceptFails
    \/ Signal
    \/ \E c \in LifeConns :
          \/ Accept(c)
          \/ Respond(c)
          \/ NextRequest(c)

SpecLifecycle == Init /\ [][NextLifecycle]_vars

\* the Go scheduler runs a goroutine that can take a step, and the deadline
\* of the context of Shutdown passes; nothing makes a signal arrive, a
\* client connect, or a handler return
SpecLifecycleFair ==
    SpecLifecycle /\ WF_vars(MainStep) /\ WF_vars(AcceptStep)

(***************************************************************************)
(* Specification of the process lifecycle started in any environment.      *)
(***************************************************************************)
InitConfig ==
    /\ req = [c \in Conns |-> IdleReq]
    /\ served = 0
    /\ panicked = FALSE
    /\ uuids = 0
    /\ svc = IdleSvc
    /\ \E env \in [EnvKeys -> EnvValues] : proc = [NewProc EXCEPT !.env = env]

SpecConfig == InitConfig /\ [][NextLifecycle]_vars

(***************************************************************************)
(* Specification of the process lifecycle without the assumption that the  *)
(* close of the database pool returns.                                     *)
(***************************************************************************)
NextHooks ==
    \/ NextLifecycle
    \/ dbPoolCloseBlocks

SpecHooksFair ==
    Init /\ [][NextHooks]_vars /\ WF_vars(MainStep) /\ WF_vars(AcceptStep)

(***************************************************************************)
(* Properties.                                                             *)
(***************************************************************************)
CompletionRecords(q) ==
    { i \in DOMAIN q.logs : q.logs[i].msg = "request completed" }

Passed(q, stage) == \E i \in DOMAIN q.events : q.events[i] = <<"enter", stage>>

IsPrefix(s, t) == Len(s) <= Len(t) /\ SubSeq(t, 1, Len(s)) = s

\* C1, as stated: every finished request, whatever its method, has exactly
\* one completion log record.
C1_OneCompletionRecordPerRequest ==
    \A c \in Conns :
        req[c].pc = "done" => Cardinality(CompletionRecords(req[c])) = 1

\* C1, amended: a request never has more than one completion log record; a
\* finished request other than an OPTIONS pre-flight has exactly one, whether
\* its handler returned or panicked, and a finished OPTIONS request has none.
C1_OneCompletionRecordUnlessPreflight ==
    \A c \in Conns :
        LET q == req[c]
        IN  /\ Cardinality(CompletionRecords(q)) <= 1
            /\ q.pc = "done" =>
                  Cardinality(CompletionRecords(q)) =
                      IF q.method = "OPTIONS" THEN 0 ELSE 1

C1_Witness ==
    \E c \in Conns :
        /\ req[c].pc = "done"
        /\ req[c].method = "GET"
        /\ req[c].recovered = 1
        /\ Cardinality(CompletionRecords(req[c])) = 1

\* C2: the status in a finished request's completion log record is the
\* status that was sent to the client.
C2_LoggedStatusIsClientStatus ==
    \A c \in Conns :
        req[c].pc = "done" =>
            \A i \in CompletionRecords(req[c]) :
                req[c].logs[i].status = req[c].status

\* C3: a panic is recovered at most once per request, it unwinds through no
\* stage outside the panic-containment stage (not the logging stage, not the
\* connection's serve loop), no connection is aborted by it, and the request
\* it interrupted finishes with a response.
C3_PanicContained ==
    \A c \in Conns :
        LET q == req[c]
        IN  /\ q.recovered <= 1
            /\ q.panicSeenBy \cap {"recovery", "logging", "requestID", "cors",
                                   "conn.serve"} = {}
            /\ ~q.aborted
            /\ q.panicking => q.pc = "unwind" /\ q.depth >= 4
            /\ (q.pc = "done" /\ q.recovered = 1) => q.wroteHeader

\* a later request is served with 200 and a body after an earlier one panicked
C3_Witness ==
    /\ panicked
    /\ served >= 2
    /\ \E c \in Conns :
          /\ req[c].pc = "done"
          /\ req[c].recovered = 0
          /\ req[c].status = 200
          /\ req[c].body # <<>>

C4_ExpectedEvents ==
    << <<"enter", "cors">>, <<"enter", "requestID">>, <<"enter", "logging">>,
       <<"enter", "recovery">>, <<"enter", "mux">>,
       <<"exit", "mux">>, <<"exit", "recovery">>, <<"exit", "logging">>,
       <<"exit", "requestID">>, <<"exit", "cors">> >>

\* C4: for a request that is not an OPTIONS pre-flight the stages are entered
\* in the order origin-policy, correlation-identifier, logging, panic
\* containment, route dispatch and left in the reverse order, none skipped.
C4_StageOrder ==
    \A c \in Conns :
        LET q == req[c]
        IN  q.method \in {"GET", "POST"} =>
               /\ IsPrefix(q.events, C4_ExpectedEvents)
               /\ q.pc = "done" => q.events = C4_ExpectedEvents
               /\ q.pc \in HandlerPCs => Len(q.events) = 5

C4_Witness ==
    \E c \in Conns :
        /\ req[c].pc = "done"
        /\ req[c].method = "GET"
        /\ req[c].recovered = 1
        /\ req[c].events = C4_ExpectedEvents

\* C5, as stated: every response carries a non-empty X-Request-ID header
\* equal to the correlation identifier of its request.
C5_EveryResponseCarriesRequestID ==
    \A c \in Conns :
        req[c].wroteHeader =>
            /\ req[c].sentHeader["X-Request-ID"] # ""
            /\ req[c].sentHeader["X-Request-ID"] = req[c].ctxRequestID

\* C5, amended: every response to a request other than an OPTIONS pre-flight
\* carries an X-Request-ID header equal to the request's correlation
\* identifier; the 204 answer to an OPTIONS request carries none.
C5_ResponseCarriesRequestIDUnlessPreflight ==
    \A c \in Conns :
        LET q == req[c]
        IN  q.wroteHeader =>
               IF q.method = "OPTIONS"
               THEN q.sentHeader["X-Request-ID"] = ""
               ELSE /\ q.sentHeader["X-Request-ID"] # ""
                    /\ q.sentHeader["X-Request-ID"] = q.ctxRequestID

C5_Witness ==
    \E c \in Conns :
        /\ req[c].pc = "done"
        /\ req[c].hdrRequestID = ""
        /\ req[c].recovered = 1
        /\ req[c].status = 500
        /\ req[c].sentHeader["X-Request-ID"] = req[c].ctxRequestID
        /\ req[c].ctxRequestID # ""

C7_PreflightShortCircuit ==
    \A c \in Conns :
        LET q == req[c]
        IN  q.method = "OPTIONS" =>
               /\ q.events \in {<<>>, << <<"enter", "cors">>,
                                        <<"exit", "cors">> >>}
               /\ q.logs = <<>>
               /\ q.storeCalls = <<>>
               /\ ~q.wrapped
               /\ ~q.ctxHasLogger
               /\ q.ctxRequestID = ""
               /\ q.body = <<>>
               /\ q.pc \in {"chain", "done"}
               /\ q.pc = "done" =>
                     /\ q.status = 204
                     /\ q.sentHeader["Access-Control-Allow-Origin"] = "*"
                     /\ q.sentHeader["Access-Control-Allow-Methods"] # ""
                     /\ q.sentHeader["Access-Control-Allow-Headers"] # ""
                     /\ q.sentHeader["Access-Control-Max-Age"] = "3600"

C7_Witness ==
    \E c \in Conns :
        /\ req[c].pc = "done"
        /\ req[c].method = "OPTIONS"
        /\ Len(req[c].path) = 3
        /\ req[c].status = 204

\* C8: Service.ListUsers queries the store with limit 100 for every limit
\* above 100, with 20 for every limit <= 0, with the limit itself for every
\* limit in 1..100, and with offset 0 for every negative offset.
C8_ClampedArguments ==
    svc.pc = "queried" =>
        LET l == svc.limit
            o == svc.offset
        IN  /\ (l.hi > 0 \/ (l.hi = 0 /\ l.lo > 100)) => svc.params.Limit = 100
            /\ (l.hi < 0 \/ (l.hi = 0 /\ l.lo = 0)) => svc.params.Limit = 20
            /\ (l.hi = 0 /\ l.lo \in 1..100) => svc.params.Limit = l.lo
            /\ o.hi < 0 => svc.params.Offset = 0

C8_Witness ==
    /\ svc.pc = "queried"
    /\ svc.limit.hi > 0
    /\ svc.offset.hi < 0
    /\ svc.params = [Limit |-> 100, Offset |-> 0]

\* C9: every ListUsers query that reaches the store has 0 < Limit <= 100 and
\* Offset >= 0.
C9_StoreParamsInRange ==
    \A c \in Conns :
        \A i \in DOMAIN req[c].storeCalls :
            LET call == req[c].storeCalls[i]
            IN  call.op = "ListUsers" =>
                   /\ 0 < call.params.Limit
                   /\ call.params.Limit <= 100
                   /\ call.params.Offset >= 0

\* C10: the limit and offset in the body of a 200 answer of the list
\* endpoint are the ones the store was queried with for that request.
C10_EchoIsAppliedValue ==
    \A c \in Conns :
        \A i \in DOMAIN req[c].body :
            req[c].body[i].kind = "users" =>
                \E k \in DOMAIN req[c].storeCalls :
                    /\ req[c].storeCalls[k].op = "ListUsers"
                    /\ req[c].body[i].limit =
                          FromInt(req[c].storeCalls[k].params.Limit)
                    /\ req[c].body[i].offset =
                          FromInt(req[c].storeCalls[k].params.Offset)

\* the handler of the request has answered through respondWithJSON
Responded(q) == q.pending.kind # "none"

\* the request was dispatched to the named handler
RoutedTo(q, handler) ==
    Passed(q, "mux") /\ Route(q.method, q.path) = handler

\* the string is the decimal notation of a non-negative integer
NonNegativeInteger(str) ==
    str # <<>> /\ \A k \in DOMAIN str : IsDigit(str[k])

\* C11: a list request with limit=500 and offset=-5 whose handler and store
\* do not fail is answered 200 after one ListUsers query of the store, with
\* limit 100 and offset 0 in the body.
C11_ScenarioC ==
    \A c \in Conns :
        LET q == req[c]
        IN  ( /\ RoutedTo(q, "HandleListUsers")
              /\ q.limitStr = <<"5", "0", "0">>
              /\ q.offsetStr = <<"-", "5">>
              /\ q.pc = "done"
              /\ q.recovered = 0
              /\ q.storeErr = "" ) =>
                 /\ q.status = StatusOK
                 /\ \E k \in DOMAIN q.storeCalls :
                       q.storeCalls[k].op = "ListUsers"
                 /\ \E i \in DOMAIN q.body :
                       /\ q.body[i].kind = "users"
                       /\ q.body[i].limit = FromInt(100)
                       /\ q.body[i].offset = FromInt(0)

\* C12: a list request with a limit or an offset that is present and is not
\* the notation of a non-negative integer never reaches the service or the
\* store; its handler answers 400 with a JSON error body.
C12_InvalidPagingRejected ==
    \A c \in Conns :
        LET q == req[c]
        IN  ( /\ RoutedTo(q, "HandleListUsers")
              /\ \/ q.limitStr # <<>> /\ ~NonNegativeInteger(q.limitStr)
                 \/ q.offsetStr # <<>> /\ ~NonNegativeInteger(q.offsetStr) ) =>
                 /\ q.storeCalls = <<>>
                 /\ q.svcErr = ""
                 /\ Responded(q)
                 /\ q.status = StatusBadRequest
                 /\ q.sentHeader["Content-Type"] = "application/json"
                 /\ q.pending.kind = "error"
                 /\ q.pending.message \in {"invalid limit parameter",
                                           "invalid offset parameter"}
                 /\ (q.pc = "done" /\ q.recovered = 0) =>
                       q.body = <<q.pending>>

C12_Witness ==
    \E c \in Conns :
        /\ req[c].pc = "done"
        /\ req[c].limitStr = <<"5", "0", "0">>
        /\ req[c].offsetStr = <<"-", "5">>
        /\ req[c].status = StatusBadRequest
        /\ req[c].body = <<ErrorPayload("invalid offset parameter")>>
        /\ req[c].storeCalls = <<>>

\* C13: a GET of /api/v1/users/{id} whose id is not a UUID never reaches the
\* service or the store; its handler answers 400 with a JSON error message.
C13_MalformedIDRejected ==
    \A c \in Conns :
        LET q == req[c]
        IN  ( /\ RoutedTo(q, "HandleGetUser")
              /\ PathValue(q.path) = MalformedID ) =>
                 /\ q.storeCalls = <<>>
                 /\ q.svcErr = ""
                 /\ Responded(q) =>
                       /\ q.status = StatusBadRequest
                       /\ q.sentHeader["Content-Type"] = "application/json"
                       /\ q.pending.kind = "error"
                       /\ q.pending.message # ""
                 /\ (q.pc = "done" /\ q.recovered = 0) =>
                       /\ Responded(q)
                       /\ q.body = <<q.pending>>

C13_Witness ==
    \E c \in Conns :
        /\ req[c].pc = "done"
        /\ PathValue(req[c].path) = MalformedID
        /\ req[c].status = StatusBadRequest
        /\ req[c].body = <<ErrorPayload("invalid user ID format")>>
        /\ req[c].storeCalls = <<>>

\* C14: when the store reports no row for a get-by-id query, GetUserByID
\* returns ErrUserNotFound and the handler answers 404; ErrUserNotFound and
\* the 404 of the handler occur in no other case, and any other error of the
\* store is returned as it is and answered 500.
C14_NotFoundIffNoRows ==
    \A c \in Conns :
        LET q == req[c]
        IN  RoutedTo(q, "HandleGetUser") =>
               /\ q.storeErr = ErrNoRows =>
                     /\ q.svcErr = ErrUserNotFound
                     /\ q.status = StatusNotFound
                     /\ q.pending = ErrorPayload("user not found")
               /\ q.svcErr = ErrUserNotFound => q.storeErr = ErrNoRows
               /\ q.status = StatusNotFound => q.storeErr = ErrNoRows
               /\ q.storeErr \in StoreFailures =>
                     /\ q.svcErr = q.storeErr
                     /\ q.status = StatusInternalServerError
               /\ q.storeErr # "" =>
                     /\ Len(q.storeCalls) = 1
                     /\ q.storeCalls[1].op = "GetUserByID"
                     /\ q.storeCalls[1].id = ValidID

C14_Witness ==
    \E c \in Conns :
        /\ req[c].pc = "done"
        /\ PathValue(req[c].path) = ValidID
        /\ req[c].storeErr = ErrNoRows
        /\ req[c].status = StatusNotFound
        /\ req[c].body = <<ErrorPayload("user not found")>>

\* the messages that occur in a response: those of its body
EchoedMessages(q) == { q.body[i].message : i \in DOMAIN q.body }

\* C15: when a store query of the get-by-id or list handler fails for a cause
\* other than no-rows, the answer is status 500 with the JSON body
\* {error: "internal server error"} whatever the cause: the cause occurs in
\* no header and no body of the response, and it is in an error log record.
C15_StoreFailureNotEchoed ==
    \A c \in Conns :
        LET q == req[c]
        IN  q.storeErr \in StoreFailures =>
               /\ q.status = StatusInternalServerError
               /\ q.sentHeader["Content-Type"] = "application/json"
               /\ q.pending = ErrorPayload("internal server error")
               /\ q.recovered = 0 =>
                     \A i \in DOMAIN q.body : q.body[i] = q.pending
               /\ (q.pc = "done" /\ q.recovered = 0) => q.body = <<q.pending>>
               /\ \A f \in StoreFailures :
                     /\ f \notin EchoedMessages(q)
                     /\ \A h \in HeaderNames : q.sentHeader[h] # f
               /\ \E i \in DOMAIN q.logs :
                     /\ q.logs[i].level = "ERROR"
                     /\ q.logs[i].error = q.storeErr

\* the answer to the second of the two causes, with the cause in the log
C15_Witness ==
    \E c \in Conns :
        /\ req[c].pc = "done"
        /\ req[c].storeErr = "context deadline exceeded"
        /\ req[c].status = StatusInternalServerError
        /\ req[c].body = <<ErrorPayload("internal server error")>>
        /\ \E i \in DOMAIN req[c].logs :
              req[c].logs[i].error = "context deadline exceeded"

\* C16: every answer with status 400, 404 or 500, the 500 after a recovered
\* panic included, has the content type application/json and a body of the
\* form {error: message}.
C16_FailuresAreJSON ==
    \A c \in Conns :
        LET q == req[c]
        IN  ( /\ q.pc = "done"
              /\ q.status \in {StatusBadRequest, StatusNotFound,
                               StatusInternalServerError} ) =>
                 /\ q.sentHeader["Content-Type"] = "application/json"
                 /\ Len(q.body) = 1
                 /\ q.body[1].kind = "error"
                 /\ q.body[1].message # ""

PanicRecords(q) ==
    { i \in DOMAIN q.logs : q.logs[i].msg = "panic recovered" }

\* C24: after a recovered panic there is one "panic recovered" record of
\* level ERROR; when the handler had not started a response the client gets
\* status 500 with the generic text, and when the handler had written its
\* status before it panicked nothing is added to the response: the status
\* and header are the handler's and the body has nothing from the
\* panic-containment stage.
C24_RecoveryWritesOnlyFreshResponse ==
    \A c \in Conns :
        LET q == req[c]
        IN  q.recovered = 1 =>
               /\ Cardinality(PanicRecords(q)) = 1
               /\ \A i \in PanicRecords(q) : q.logs[i].level = "ERROR"
               /\ ~Responded(q) =>
                     /\ q.status = StatusInternalServerError
                     /\ q.body = <<TextPayload("Internal Server Error")>>
               /\ Responded(q) =>
                     /\ q.status # 0
                     /\ q.sentHeader["Content-Type"] = "application/json"
                     /\ \A i \in DOMAIN q.body : q.body[i].kind # "text"

\* C27: every log record written for a request, by the logging stage, the
\* panic-containment stage or a handler, has the request's correlation
\* identifier as its request_id.
C27_LogsCarryOwnRequestID ==
    \A c \in Conns :
        \A i \in DOMAIN req[c].logs :
            /\ req[c].logs[i].request_id # ""
            /\ req[c].logs[i].request_id = req[c].ctxRequestID

\* the users of a table that are not soft-deleted
Live(table) ==
    { id \in UserIDs : table[id].present /\ table[id].deleted_at = Null }

\* the number of matches a list with this offset skips, of n matches
Skipped(offset, n) ==
    IF IsNegative(offset) THEN 0
    ELSE IF GreaterThan(offset, n) THEN n ELSE offset.lo

\* the most users a list with this limit returns
AtMost(limit) ==
    IF LeqZero(limit) THEN 20
    ELSE IF GreaterThan(limit, 100) THEN 100 ELSE limit.lo

\* C23: a get answers 200 with the user when the user exists and is not
\* soft-deleted and 404 otherwise; a list answers 200, also when it has no
\* user to return, and its users are users that are not soft-deleted, each
\* once, most recently created first, starting after the first offset of
\* them and at most limit of them.
C23_ReadsExcludeSoftDeleted ==
    /\ svc.pc = "got" =>
          IF svc.id \in Live(svc.table)
          THEN svc.status = StatusOK /\ svc.users = <<svc.id>>
          ELSE svc.status = StatusNotFound /\ svc.users = <<>>
    /\ svc.pc = "listed" =>
          LET live == Live(svc.table)
              n    == Cardinality(live)
              skip == Skipped(svc.offset, n)
              u    == svc.users
              Newer(i)   == { y \in live : svc.table[y].created_at >
                                              svc.table[u[i]].created_at }
              NotOlder(i) == { y \in live : svc.table[y].created_at >=
                                              svc.table[u[i]].created_at }
          IN  /\ svc.status = StatusOK
              /\ \A i \in DOMAIN u : u[i] \in live
              /\ \A i, j \in DOMAIN u : i # j => u[i] # u[j]
              /\ Len(u) = Min(AtMost(svc.limit), n - skip)
              /\ \A i \in DOMAIN u :
                    /\ Cardinality(Newer(i)) <= skip + i - 1
                    /\ Cardinality(NotOlder(i)) >= skip + i

\* C23 for the offsets that fit 32 bits
C23_InRangeReads ==
    (svc.pc \in {"got", "listed"} /\ svc.offset.hi \in 0 - 1 .. 0)
        => C23_ReadsExcludeSoftDeleted

C23_InRangeWitness ==
    /\ svc.pc = "listed"
    /\ Cardinality(Matches_all(svc.table)) = MaxRows
    /\ Cardinality(Live(svc.table)) = 2
    /\ svc.offset = FromInt(1)
    /\ Len(svc.users) = 1

(***************************************************************************)
(* Properties of the process lifecycle.                                    *)
(***************************************************************************)
\* the state of the lifecycle manager of section 4.4 that a state of the
\* process stands for
Phase(p) ==
    IF p.exit # "" THEN (IF p.inShutdown THEN "Stopped" ELSE "Failed")
    ELSE IF p.inShutdown THEN "Draining"
    ELSE IF p.tracked THEN "Running"
    ELSE IF p.accept # "none" THEN "Starting"
    ELSE "Created"

PhaseOrder == <<"Created", "Starting", "Running", "Draining", "Stopped">>

PhaseRank(phase) ==
    IF phase = "Failed" THEN Len(PhaseOrder)
    ELSE CHOOSE i \in DOMAIN PhaseOrder : PhaseOrder[i] = phase

\* C17: once the listener could not bind or the accept loop has returned an
\* error other than listener-closed, the process eventually ends, whether
\* or not a signal arrives.
C17_AcceptFailureEndsProcess ==
    [](proc.acceptErr # "" => <>(proc.exit # ""))

\* C18: the server starts shutting down only in a step that receives a
\* signal from the channel; from then on it stays shutting down, no
\* connection is accepted and no new request starts, a request in flight is
\* left to run until its response is sent, and the lifecycle state never
\* moves backwards.
C18_DrainingOnlyOnSignal ==
    [][ LET p == proc
            q == proc'
        IN  /\ (~p.inShutdown /\ q.inShutdown) =>
                  /\ p.signals >= 1
                  /\ p.quit = 1 /\ q.quit = 0
                  /\ \A c \in LifeConns :
                        p.conn[c] = "active" => q.conn[c] = "active"
            /\ p.inShutdown =>
                  /\ q.inShutdown
                  /\ served' = served
                  /\ \A c \in LifeConns :
                        /\ p.conn[c] = "none" => q.conn[c] = "none"
                        /\ q.conn[c] = "active" => p.conn[c] = "active"
                        /\ (p.conn[c] = "active" /\ Running(q)) =>
                              \/ q.conn[c] = "active"
                              \/ /\ q.conn[c] = "closed"
                                 /\ q.sent[c] = p.sent[c] + 1
            /\ PhaseRank(Phase(q)) >= PhaseRank(Phase(p))
      ]_vars

\* a request that was in flight when the signal was received has been
\* answered while the server is draining, after the listener was closed
C18_Witness ==
    /\ Running(proc)
    /\ proc.inShutdown
    /\ proc.listener = "closed"
    /\ \E c \in proc.drainSet : proc.conn[c] = "closed" /\ proc.sent[c] >= 1
    /\ \E c \in LifeConns : proc.conn[c] = "none"

\* C19: after a signal was delivered the process eventually ends; when the
\* context of Shutdown expires with requests in flight the forced shutdown
\* is logged, the process ends with failure status and the connections of
\* those requests are closed with it; connections are cut off on no other
\* path out of the drain.
C19_SignalLeadsToExit ==
    /\ [](proc.signals >= 1 => <>(proc.exit # ""))
    /\ []("server forced to shutdown" \in proc.log =>
             /\ proc.exit = "failure"
             /\ \A c \in LifeConns : proc.conn[c] \notin {"active", "idle"}
             /\ \E c \in proc.drainSet : proc.conn[c] = "reset")
    /\ []((proc.inShutdown /\ \E c \in LifeConns : proc.conn[c] = "reset") =>
             "server forced to shutdown" \in proc.log)

C19_Witness ==
    /\ proc.exit = "failure"
    /\ "server forced to shutdown" \in proc.log
    /\ \E c \in proc.drainSet : proc.conn[c] = "reset"
    /\ proc.pool = "open"

\* C20: a request in flight when the signal is received is not cut off while
\* the server drains, its connection closes only after its response was
\* sent, and when every such request has finished the process ends with
\* success status after logging "server exited".
C20_InFlightRequestCompletes ==
    proc.drainSet # {} =>
        /\ Running(proc) =>
              \A c \in proc.drainSet : proc.conn[c] \in {"active", "closed"}
        /\ \A c \in proc.drainSet :
              proc.conn[c] = "closed" => proc.sent[c] >= 1
        /\ ( /\ proc.exit # ""
             /\ \A c \in proc.drainSet : proc.conn[c] = "closed" ) =>
                /\ proc.exit = "success"
                /\ "server exited" \in proc.log
                /\ "server forced to shutdown" \notin proc.log

C20_Witness ==
    /\ proc.exit = "success"
    /\ proc.drainSet # {}
    /\ \A c \in proc.drainSet : proc.conn[c] = "closed" /\ proc.sent[c] >= 1

\* the listener is open and the accept loop is running on it
Accepting(p) == p.accept = "accept" /\ p.listener = "open"

\* C21: when the process has ended after Shutdown was called, on the path
\* where the drain finished as on the path where the context expired, the
\* tracing provider has been shut down and the database pool closed.
C21_HooksRunOnEveryExit ==
    (proc.inShutdown /\ proc.exit # "") =>
        /\ proc.tracerShutdowns = 1
        /\ proc.tracer = "down"
        /\ proc.pool = "closed"

\* C22: the logger and the tracing provider are never initialized twice and
\* both are initialized when the listener is opened; the tracing provider is
\* shut down only after Shutdown was called and never while the accept loop
\* runs, never twice, and once when the process has ended after Shutdown
\* was called.
C22_SingletonsOnce ==
    /\ proc.loggerInits <= 1
    /\ proc.tracerInits <= 1
    /\ proc.tracerShutdowns <= 1
    /\ proc.listener # "none" =>
          /\ proc.loggerInits = 1 /\ proc.logger
          /\ proc.tracerInits = 1
    /\ Accepting(proc) => proc.tracer = "up"
    /\ proc.tracerShutdowns >= 1 => proc.inShutdown /\ ~Accepting(proc)
    /\ (proc.inShutdown /\ proc.exit # "") => proc.tracerShutdowns = 1

\* C28: after a signal was delivered the process eventually ends, also when
\* the signal arrives before the accept loop runs; when srv.Start returns
\* ErrServerClosed no "server error" record is written; and once Shutdown
\* was called no connection is accepted and no request starts.
C28_SignalRaces ==
    /\ [](proc.signals >= 1 => <>(proc.exit # ""))
    /\ [](proc.startErr = ErrServerClosed => "server error" \notin proc.log)
    /\ [][ proc.inShutdown =>
              /\ served' = served
              /\ \A c \in LifeConns :
                    proc.conn[c] # "active" => proc'.conn[c] # "active"
         ]_vars

\* the signal was received after net.Listen and before Serve registered the
\* listener: Serve closed it and the process ended without serving
C28_Witness ==
    /\ proc.exit = "success"
    /\ proc.startErr = ErrServerClosed
    /\ ~proc.tracked
    /\ proc.listener = "closed"
    /\ served = 0

\* C29: the database pool is closed only after Shutdown returned nil, when
\* the accept loop no longer runs and no connection is open; after a forced
\* shutdown the process has ended with the pool open.
C29_PoolClosedAfterDrain ==
    /\ proc.pool = "closed" =>
          /\ ~Accepting(proc)
          /\ \A c \in LifeConns : proc.conn[c] \in {"none", "closed"}
          /\ "server exited" \in proc.log
          /\ "server forced to shutdown" \notin proc.log
    /\ "server forced to shutdown" \in proc.log =>
          /\ proc.exit = "failure"
          /\ proc.pool = "open"

C29_Witness ==
    /\ proc.pool = "closed"
    /\ proc.exit = "success"
    /\ proc.tracked
    /\ \E c \in LifeConns : proc.conn[c] = "closed" /\ proc.sent[c] >= 1

\* C26: once main has returned and its deferred functions run, the tracing
\* provider is eventually shut down and the process ends, also when the
\* close of the database pool does not return.
C26_BlockedHookDoesNotStall ==
    [](proc.main \in {"dbPoolClose", "dbPoolCloseBlocked"} =>
          <>(proc.tracerShutdowns = 1 /\ proc.exit # ""))

\* C25: the http.Server has the read, write and idle timeouts of the
\* configuration, and the deadline of the context of Shutdown is the
\* configuration's ShutdownTimeout.
C25_ConfiguredTimeoutsApplied ==
    /\ proc.accept # "none" =>
          /\ proc.cfg = Load(proc.env)
          /\ proc.httpServer.ReadTimeout = proc.cfg.ReadTimeout
          /\ proc.httpServer.WriteTimeout = proc.cfg.WriteTimeout
          /\ proc.httpServer.IdleTimeout = proc.cfg.IdleTimeout
    /\ proc.inShutdown => proc.drainTimeout = proc.cfg.ShutdownTimeout

StartupFailures == { "failed to load configuration",
                     "failed to initialize telemetry",
                     "failed to connect to database" }

\* C30: when a start-up step has failed the process has ended with failure
\* status, no listener was opened, no goroutine started and no request
\* served, and a tracing provider that was initialized has been shut down.
C30_StartupFailure ==
    proc.log \cap StartupFailures # {} =>
        /\ proc.exit = "failure"
        /\ proc.listener = "none"
        /\ proc.accept = "none"
        /\ served = 0
        /\ proc.tracerInits = 1 => proc.tracerShutdowns = 1

====
